---- MODULE Spec2Model ----
(***************************************************************************)
(* Model of the Nautobot job GenerateDevicesAndRecords                     *)
(* (src/jobs/generate_records.py).  One invocation of run(data, commit)    *)
(* is a sequence of steps, one per persistence call, over a store of ORM   *)
(* tables.  A twin invocation with the opposite dry-run flag is executed   *)
(* in lock step from the same starting store, with the same inputs and the *)
(* same failures of the persistence layer.                                 *)
(***************************************************************************)
EXTENDS Integers, Sequences, FiniteSets, TLC

\* Bounds of the model.
MaxDevices == 2
MaxRuns == 2

\* IntegerVar(max_value=5000) of total_devices.
MAX_TOTAL_DEVICES == 5000

LocationNames == {"AutoLab", "Lab2"}
BaseNames == {"autodev", "other"}
ZoneNames == {"example.com"}
TotalDevicesValues == (0 - 1) .. MaxDevices

\* The inputs of the committing invocation; the twin gets the same inputs with
\* dry_run = TRUE, so every input is run with both values of the flag.
\* The second location is used with the default base name, which is what moves
\* existing devices to another location.
DataValues ==
  {d \in [location_name : LocationNames, base_device_name : BaseNames,
          total_devices : TotalDevicesValues, zone_name : ZoneNames,
          dry_run : {FALSE}] :
     d.location_name = "AutoLab" \/ d.base_device_name = "autodev"}

VARIABLES job, twin, data, startStore, prev, runs, ipIdx, ipSeen

vars == <<job, twin, data, startStore, prev, runs, ipIdx, ipSeen>>

----------------------------------------------------------------------------
\* The store: one set of records per model class.

EmptyStore ==
  [Status |-> {}, Manufacturer |-> {}, DeviceType |-> {}, Platform |-> {},
   Location |-> {}, Zone |-> {}, Device |-> {}, Interface |-> {},
   IPAddress |-> {}, ARecord |-> {}]

\* Python's None, what run returns when it ends without a value; a returned
\* string s would be <<s>>.
None == <<>>

\* Value of a local variable of run that is not yet bound.
NoObject == <<[unbound |-> TRUE], 0>>

NoDefaults == [f \in {} |-> TRUE]

\* QuerySet.filter(**lookup)
Matching(table, lookup) ==
  {r \in table : \A f \in DOMAIN lookup : r[f] = lookup[f]}

\* A primary key no record of the table has: records are never deleted and an
\* update never changes a lookup field, so the records made for one lookup are
\* numbered 0, 1, ...
NewPk(table, lookup) ==
  <<lookup, Cardinality({r \in table : r.pk[1] = lookup})>>

\* Manager.get_or_create(**lookup, defaults=defaults): the matching record, or a
\* new one; MultipleObjectsReturned when several match.
get_or_create(table, lookup, defaults) ==
  LET m == Matching(table, lookup)
      new == [pk |-> NewPk(table, lookup)] @@ lookup @@ defaults
  IN  IF Cardinality(m) > 1
        THEN [raised |-> TRUE, created |-> FALSE, table |-> table, pk |-> NoObject]
      ELSE IF m = {}
        THEN [raised |-> FALSE, created |-> TRUE, table |-> table \cup {new},
              pk |-> new.pk]
      ELSE [raised |-> FALSE, created |-> FALSE, table |-> table,
            pk |-> (CHOOSE r \in m : TRUE).pk]

\* Mutant of update_or_create: a plain create, whatever the table holds.
update_or_create_inserts(table, lookup, defaults) ==
  [raised |-> FALSE, created |-> TRUE,
   table |-> table \cup {[pk |-> NewPk(table, lookup)] @@ lookup @@ defaults},
   pk |-> NewPk(table, lookup)]

\* Manager.update_or_create(**lookup, defaults=defaults): as get_or_create, but
\* a matching record gets the defaults assigned and is saved.
update_or_create(table, lookup, defaults) ==
  LET m == Matching(table, lookup)
      new == [pk |-> NewPk(table, lookup)] @@ lookup @@ defaults
      old == CHOOSE r \in m : TRUE
  IN  IF Cardinality(m) > 1
        THEN [raised |-> TRUE, created |-> FALSE, table |-> table, pk |-> NoObject]
      ELSE IF m = {}
        THEN [raised |-> FALSE, created |-> TRUE, table |-> table \cup {new},
              pk |-> new.pk]
      ELSE [raised |-> FALSE, created |-> FALSE,
            table |-> (table \ {old}) \cup {defaults @@ old}, pk |-> old.pk]

----------------------------------------------------------------------------
\* The state of one invocation of run.

Idle(store) ==
  [pc |-> "idle", store |-> store, i |-> 0, created_count |-> 0,
   status_active |-> NoObject, manufacturer |-> NoObject,
   device_type |-> NoObject, platform |-> NoObject, location |-> NoObject,
   zone |-> NoObject, device |-> NoObject, interface |-> NoObject,
   ip_address_obj |-> NoObject, calls |-> <<>>, log |-> <<>>, ret |-> None]

Call(model, lookup, outcome) ==
  [model |-> model, lookup |-> lookup, outcome |-> outcome]

Outcome(res) == IF res.created THEN "created" ELSE "existing"

\* f"{data['base_device_name']}-{i}"
device_name(d, i) == <<d.base_device_name, "-", i>>

\* Mutant of ip_str: the third octet is left at 0.
ip_str_low_octet(i) == <<10, 0, 0, i % 256, 24>>

\* f"10.0.{(i // 256) % 256}.{i % 256}/24"
ip_str(i) == <<10, 0, (i \div 256) % 256, i % 256, 24>>

\* Mutant of except: the failure is logged and the failing call is tried again.
except_retry(r, model, lookup) ==
  [r EXCEPT !.calls = Append(@, Call(model, lookup, "raised")),
            !.log = Append(@, <<"failure", "An unexpected error occurred">>)]

\* except Exception as e: log_failure(...); run then ends without a return
\* statement.
except(r, model, lookup) ==
  [r EXCEPT !.calls = Append(@, Call(model, lookup, "raised")),
            !.log = Append(@, <<"failure", "An unexpected error occurred">>),
            !.pc = "returned", !.ret = None]

\* Mutant of start: a dry run returns after its warning.
start_dry_returns(store, d, commit) ==
  LET r0 == [Idle(store) EXCEPT
               !.log = <<<<"info", "Starting device generation job", d.dry_run>>>>]
  IN  IF d.total_devices <= 0
        THEN [r0 EXCEPT
                !.log = Append(@, <<"failure", "Total devices must be a positive integer.">>),
                !.pc = "returned", !.ret = None]
      ELSE IF ~commit
        THEN [r0 EXCEPT !.log = Append(@, <<"warning", "Dry run mode">>),
                        !.pc = "returned", !.ret = None]
      ELSE [r0 EXCEPT !.pc = "status"]

\* Mutant of start: only a negative total_devices is rejected.
start_negative_only(store, d, commit) ==
  LET r0 == [Idle(store) EXCEPT
               !.log = <<<<"info", "Starting device generation job", d.dry_run>>>>]
  IN  IF d.total_devices < 0
        THEN [r0 EXCEPT
                !.log = Append(@, <<"failure", "Total devices must be a positive integer.">>),
                !.pc = "returned", !.ret = None]
      ELSE [r0 EXCEPT
              !.log = IF ~commit THEN Append(@, <<"warning", "Dry run mode">>) ELSE @,
              !.pc = "status"]

\* run up to the try block.
start(store, d, commit) ==
  LET r0 == [Idle(store) EXCEPT
               !.log = <<<<"info", "Starting device generation job", d.dry_run>>>>]
  IN  IF d.total_devices <= 0
        THEN [r0 EXCEPT
                !.log = Append(@, <<"failure", "Total devices must be a positive integer.">>),
                !.pc = "returned", !.ret = None]
      ELSE [r0 EXCEPT
              !.log = IF ~commit THEN Append(@, <<"warning", "Dry run mode">>) ELSE @,
              !.pc = "status"]

status_active(r, fail) ==
  LET lookup == [name |-> "Active"]
      res == get_or_create(r.store.Status, lookup, [description |-> "Active status"])
  IN  IF fail \/ res.raised THEN except(r, "Status", lookup)
      ELSE [r EXCEPT !.store.Status = res.table, !.status_active = res.pk,
                     !.calls = Append(@, Call("Status", lookup, Outcome(res))),
                     !.pc = "manufacturer"]

manufacturer(r, fail) ==
  LET lookup == [name |-> "AutoGen Inc."]
      res == get_or_create(r.store.Manufacturer, lookup, NoDefaults)
  IN  IF fail \/ res.raised THEN except(r, "Manufacturer", lookup)
      ELSE [r EXCEPT !.store.Manufacturer = res.table, !.manufacturer = res.pk,
                     !.calls = Append(@, Call("Manufacturer", lookup, Outcome(res))),
                     !.log = IF res.created
                               THEN Append(@, <<"info", "Created new Manufacturer">>)
                               ELSE @,
                     !.pc = "device_type"]

device_type(r, fail) ==
  LET lookup == [model |-> "AGen-Switch", manufacturer |-> r.manufacturer]
      res == get_or_create(r.store.DeviceType, lookup, [slug |-> "agen-switch"])
  IN  IF fail \/ res.raised THEN except(r, "DeviceType", lookup)
      ELSE [r EXCEPT !.store.DeviceType = res.table, !.device_type = res.pk,
                     !.calls = Append(@, Call("DeviceType", lookup, Outcome(res))),
                     !.log = IF res.created
                               THEN Append(@, <<"info", "Created new DeviceType">>)
                               ELSE @,
                     !.pc = "platform"]

platform(r, fail) ==
  LET lookup == [name |-> "AutoOS"]
      res == get_or_create(r.store.Platform, lookup, NoDefaults)
  IN  IF fail \/ res.raised THEN except(r, "Platform", lookup)
      ELSE [r EXCEPT !.store.Platform = res.table, !.platform = res.pk,
                     !.calls = Append(@, Call("Platform", lookup, Outcome(res))),
                     !.log = IF res.created
                               THEN Append(@, <<"info", "Created new Platform">>)
                               ELSE @,
                     !.pc = "location"]

location(r, d, fail) ==
  LET lookup == [name |-> d.location_name]
      res == get_or_create(r.store.Location, lookup, NoDefaults)
  IN  IF fail \/ res.raised THEN except(r, "Location", lookup)
      ELSE [r EXCEPT !.store.Location = res.table, !.location = res.pk,
                     !.calls = Append(@, Call("Location", lookup, Outcome(res))),
                     !.log = IF res.created
                               THEN Append(@, <<"info", "Created new Location">>)
                               ELSE @,
                     !.pc = "zone"]

\* The last of the common objects; created_count = 0 and the loop begins.
zone(r, d, fail) ==
  LET lookup == [name |-> d.zone_name]
      res == get_or_create(r.store.Zone, lookup, NoDefaults)
  IN  IF fail \/ res.raised THEN except(r, "Zone", lookup)
      ELSE [r EXCEPT !.store.Zone = res.table, !.zone = res.pk,
                     !.calls = Append(@, Call("Zone", lookup, Outcome(res))),
                     !.log = IF res.created
                               THEN Append(@, <<"info", "Created new DNS Zone">>)
                               ELSE @,
                     !.created_count = 0, !.i = 0,
                     !.pc = "for"]

\* for i in range(data["total_devices"]): the next index, or the end of the
\* loop and the closing log line.
for(r, d, commit) ==
  IF r.i < d.total_devices
    THEN [r EXCEPT !.log = Append(@, <<"info", "Processing device",
                                       device_name(d, r.i), ip_str(r.i)>>),
                   !.pc = "device"]
  ELSE [r EXCEPT !.log = Append(@, <<"success",
                                     IF commit THEN "Done!" ELSE "Dry run complete!",
                                     r.created_count, d.total_devices, d.zone_name>>),
                 !.pc = "returned", !.ret = None]

\* Mutant of device: get_or_create, so an existing Device keeps its old fields.
device_get_or_create(r, d, fail) ==
  LET lookup == [name |-> device_name(d, r.i)]
      res == get_or_create(r.store.Device, lookup,
               [device_type |-> r.device_type, platform |-> r.platform,
                location |-> r.location, status |-> r.status_active])
  IN  IF fail \/ res.raised THEN except(r, "Device", lookup)
      ELSE [r EXCEPT !.store.Device = res.table, !.device = res.pk,
                     !.calls = Append(@, Call("Device", lookup, Outcome(res))),
                     !.log = Append(@, IF res.created
                                         THEN <<"success", "Device created", lookup.name>>
                                         ELSE <<"info", "Device already exists", lookup.name>>),
                     !.created_count = IF res.created THEN @ + 1 ELSE @,
                     !.pc = "interface"]

device(r, d, fail) ==
  LET lookup == [name |-> device_name(d, r.i)]
      res == update_or_create(r.store.Device, lookup,
               [device_type |-> r.device_type, platform |-> r.platform,
                location |-> r.location, status |-> r.status_active])
  IN  IF fail \/ res.raised THEN except(r, "Device", lookup)
      ELSE [r EXCEPT !.store.Device = res.table, !.device = res.pk,
                     !.calls = Append(@, Call("Device", lookup, Outcome(res))),
                     !.log = Append(@, IF res.created
                                         THEN <<"success", "Device created", lookup.name>>
                                         ELSE <<"info", "Device already exists", lookup.name>>),
                     !.created_count = IF res.created THEN @ + 1 ELSE @,
                     !.pc = "interface"]

\* Mutant of interface: the IPAddress is written before the Interface.
interface_after_ip(r, d, fail) ==
  LET lookup == [address |-> ip_str(r.i)]
      res == update_or_create(r.store.IPAddress, lookup,
               [assigned_object |-> r.interface, status |-> r.status_active])
  IN  IF fail \/ res.raised THEN except(r, "IPAddress", lookup)
      ELSE [r EXCEPT !.store.IPAddress = res.table, !.ip_address_obj = res.pk,
                     !.calls = Append(@, Call("IPAddress", lookup, Outcome(res))),
                     !.pc = "arecord"]

interface(r, d, fail) ==
  LET lookup == [device |-> r.device, name |-> "eth0"]
      res == update_or_create(r.store.Interface, lookup,
               [type |-> "1000base-t", status |-> r.status_active])
  IN  IF fail \/ res.raised THEN except(r, "Interface", lookup)
      ELSE [r EXCEPT !.store.Interface = res.table, !.interface = res.pk,
                     !.calls = Append(@, Call("Interface", lookup, Outcome(res))),
                     !.log = Append(@, IF res.created
                                         THEN <<"success", "Interface created", device_name(d, r.i)>>
                                         ELSE <<"info", "Interface already exists", device_name(d, r.i)>>),
                     !.pc = "ip_address_obj"]

\* Mutant of ip_address_obj: get_or_create, so an existing IPAddress stays
\* assigned where it was.
ip_address_obj_get_or_create(r, d, fail) ==
  LET lookup == [address |-> ip_str(r.i)]
      res == get_or_create(r.store.IPAddress, lookup,
               [assigned_object |-> r.interface, status |-> r.status_active])
  IN  IF fail \/ res.raised THEN except(r, "IPAddress", lookup)
      ELSE [r EXCEPT !.store.IPAddress = res.table, !.ip_address_obj = res.pk,
                     !.calls = Append(@, Call("IPAddress", lookup, Outcome(res))),
                     !.log = Append(@, IF res.created
                                         THEN <<"success", "IP Address created", ip_str(r.i)>>
                                         ELSE <<"info", "IP Address already exists", ip_str(r.i)>>),
                     !.pc = "arecord"]

ip_address_obj(r, d, fail) ==
  LET lookup == [address |-> ip_str(r.i)]
      res == update_or_create(r.store.IPAddress, lookup,
               [assigned_object |-> r.interface, status |-> r.status_active])
  IN  IF fail \/ res.raised THEN except(r, "IPAddress", lookup)
      ELSE [r EXCEPT !.store.IPAddress = res.table, !.ip_address_obj = res.pk,
                     !.calls = Append(@, Call("IPAddress", lookup, Outcome(res))),
                     !.log = Append(@, IF res.created
                                         THEN <<"success", "IP Address created", ip_str(r.i)>>
                                         ELSE <<"info", "IP Address already exists", ip_str(r.i)>>),
                     !.pc = "arecord"]

\* The last call of an iteration, the "Processed" line and the step to i + 1.
arecord(r, d, fail) ==
  LET lookup == [name |-> device_name(d, r.i), zone |-> r.zone]
      res == update_or_create(r.store.ARecord, lookup, [address |-> r.ip_address_obj])
  IN  IF fail \/ res.raised THEN except(r, "ARecord", lookup)
      ELSE [r EXCEPT !.store.ARecord = res.table,
                     !.calls = Append(@, Call("ARecord", lookup, Outcome(res))),
                     !.log = Append(Append(@,
                               IF res.created
                                 THEN <<"success", "A Record created", lookup.name>>
                                 ELSE <<"info", "A Record already exists", lookup.name>>),
                               <<"info", "Processed", lookup.name, ip_str(r.i)>>),
                     !.i = @ + 1,
                     !.pc = "for"]

\* One step of an invocation, from wherever it stands.
Step(r, d, commit, fail) ==
  CASE r.pc = "status" -> status_active(r, fail)
    [] r.pc = "manufacturer" -> manufacturer(r, fail)
    [] r.pc = "device_type" -> device_type(r, fail)
    [] r.pc = "platform" -> platform(r, fail)
    [] r.pc = "location" -> location(r, d, fail)
    [] r.pc = "zone" -> zone(r, d, fail)
    [] r.pc = "for" -> for(r, d, commit)
    [] r.pc = "device" -> device(r, d, fail)
    [] r.pc = "interface" -> interface(r, d, fail)
    [] r.pc = "ip_address_obj" -> ip_address_obj(r, d, fail)
    [] r.pc = "arecord" -> arecord(r, d, fail)
    [] OTHER -> r

----------------------------------------------------------------------------
\* commit is "effectively not self.dry_run".
Commit(d) == ~d.dry_run

\* The same inputs with the dry-run flag the other way.
TwinData == [data EXCEPT !.dry_run = ~@]

\* The closing success line was logged.
Succeeded(r) ==
  /\ r.pc = "returned"
  /\ r.log[Len(r.log)][1] = "success"

NoPrev == [ok |-> FALSE, data |-> CHOOSE d \in DataValues : TRUE]

Init ==
  /\ job = Idle(EmptyStore)
  /\ twin = Idle(EmptyStore)
  /\ data = CHOOSE d \in DataValues : TRUE
  /\ startStore = EmptyStore
  /\ prev = NoPrev
  /\ runs = 0
  /\ ipIdx = 0
  /\ ipSeen = {}

Advance(fail) ==
  /\ job' = Step(job, data, Commit(data), fail)
  /\ twin' = Step(twin, TwinData, Commit(TwinData), fail)
  /\ UNCHANGED <<data, startStore, prev, runs, ipIdx, ipSeen>>

\* The job runner invokes run(data, commit) on the store as the last run left it.
run ==
  /\ job.pc \in {"idle", "returned"}
  /\ runs < MaxRuns
  /\ \E d \in DataValues :
       /\ data' = d
       /\ job' = start(job.store, d, Commit(d))
       /\ twin' = start(job.store, [d EXCEPT !.dry_run = ~@],
                        Commit([d EXCEPT !.dry_run = ~@]))
  /\ startStore' = job.store
  /\ prev' = IF Succeeded(job) THEN [ok |-> TRUE, data |-> data] ELSE NoPrev
  /\ runs' = runs + 1
  /\ UNCHANGED <<ipIdx, ipSeen>>

GetStatus == job.pc = "status" /\ \E fail \in BOOLEAN : Advance(fail)
GetManufacturer == job.pc = "manufacturer" /\ \E fail \in BOOLEAN : Advance(fail)
GetDeviceType == job.pc = "device_type" /\ \E fail \in BOOLEAN : Advance(fail)
GetPlatform == job.pc = "platform" /\ \E fail \in BOOLEAN : Advance(fail)
GetLocation == job.pc = "location" /\ \E fail \in BOOLEAN : Advance(fail)
GetZone == job.pc = "zone" /\ \E fail \in BOOLEAN : Advance(fail)
ForLoop == job.pc = "for" /\ Advance(FALSE)
UpsertDevice == job.pc = "device" /\ \E fail \in BOOLEAN : Advance(fail)
UpsertInterface == job.pc = "interface" /\ \E fail \in BOOLEAN : Advance(fail)
UpsertIPAddress == job.pc = "ip_address_obj" /\ \E fail \in BOOLEAN : Advance(fail)
UpsertARecord == job.pc = "arecord" /\ \E fail \in BOOLEAN : Advance(fail)

Next ==
  \/ run
  \/ GetStatus
  \/ GetManufacturer
  \/ GetDeviceType
  \/ GetPlatform
  \/ GetLocation
  \/ GetZone
  \/ ForLoop
  \/ UpsertDevice
  \/ UpsertInterface
  \/ UpsertIPAddress
  \/ UpsertARecord

Spec == Init /\ [][Next]_vars

----------------------------------------------------------------------------
\* The address generator alone, over every index total_devices admits.

GenerateAddress ==
  /\ ipIdx < MAX_TOTAL_DEVICES
  /\ ipSeen' = ipSeen \cup {ip_str(ipIdx)}
  /\ ipIdx' = ipIdx + 1
  /\ UNCHANGED <<job, twin, data, startStore, prev, runs>>

SpecIp == Init /\ [][GenerateAddress]_vars

----------------------------------------------------------------------------
\* Helpers of the properties.

Pks(table) == {x.pk : x \in table}

CountLevel(log, level) == Cardinality({k \in 1 .. Len(log) : log[k][1] = level})

SameInputs(d1, d2) ==
  /\ d1.location_name = d2.location_name
  /\ d1.base_device_name = d2.base_device_name
  /\ d1.total_devices = d2.total_devices
  /\ d1.zone_name = d2.zone_name

\* The only record of the table matching the lookup.
The(table, lookup) == CHOOSE x \in Matching(table, lookup) : TRUE

One(table, lookup) == Cardinality(Matching(table, lookup)) = 1

CexC2 == twin.pc = "returned" => twin.store = startStore

\* C3: a run that follows a successful run of the same location_name,
\* base_device_name, total_devices and zone_name, and succeeds, leaves the
\* store as it found it, creates nothing in any call and counts 0 created
\* devices.
RunIdempotent(r, d) ==
  (prev.ok /\ SameInputs(prev.data, d) /\ Succeeded(r)) =>
    /\ r.store = startStore
    /\ \A k \in 1 .. Len(r.calls) : r.calls[k].outcome = "existing"
    /\ r.created_count = 0

InvC3 == RunIdempotent(job, data) /\ RunIdempotent(twin, TwinData)

WitC3 ==
  /\ prev.ok /\ SameInputs(prev.data, data) /\ Succeeded(job)
  /\ data.total_devices = MaxDevices
  /\ Len(job.calls) = 6 + 4 * MaxDevices

\* C4: every invocation of run returns a status string.
CexC4 == job.pc = "returned" => job.ret # None

\* C5: once a persistence call has raised, the run is over: the raising call is
\* the last one issued, run has returned without a value, exactly one failure
\* is logged, and every record written by the calls before it is in the store.
NoRollbackNoRetry(r) ==
  (\E k \in 1 .. Len(r.calls) : r.calls[k].outcome = "raised") =>
    /\ r.pc = "returned" /\ r.ret = None
    /\ \A k \in 1 .. Len(r.calls) : r.calls[k].outcome = "raised" <=> k = Len(r.calls)
    /\ CountLevel(r.log, "failure") = 1
    /\ CountLevel(r.log, "success") = CountLevel(SubSeq(r.log, 1, Len(r.log) - 1), "success")
    /\ \A k \in 1 .. Len(r.calls) - 1 :
         Matching(r.store[r.calls[k].model], r.calls[k].lookup) # {}
    /\ \A m \in DOMAIN startStore : Pks(startStore[m]) \subseteq Pks(r.store[m])

InvC5 == NoRollbackNoRetry(job) /\ NoRollbackNoRetry(twin)

\* A call of iteration 1 raised after iteration 0 and part of iteration 1 had
\* created records.
WitC5 ==
  /\ job.pc = "returned"
  /\ Len(job.calls) = 6 + 4 + 3
  /\ job.calls[Len(job.calls)].outcome = "raised"
  /\ job.calls[Len(job.calls)].model = "IPAddress"
  /\ \A k \in 7 .. Len(job.calls) - 1 : job.calls[k].outcome = "created"

\* C6: after a successful run of N devices, for every i < N there is exactly
\* one Device '<base>-i', with the job's device type, platform, location and
\* Active status; exactly one Interface eth0 on it; exactly one IPAddress of
\* index i, assigned to that interface; exactly one ARecord '<base>-i' in the
\* zone, whose address is that IPAddress.
DeviceComplete(r, d, i) ==
  /\ One(r.store.Device, [name |-> device_name(d, i)])
  /\ LET dev == The(r.store.Device, [name |-> device_name(d, i)]) IN
       /\ One(r.store.DeviceType, [model |-> "AGen-Switch"])
       /\ dev.device_type = The(r.store.DeviceType, [model |-> "AGen-Switch"]).pk
       /\ One(r.store.Platform, [name |-> "AutoOS"])
       /\ dev.platform = The(r.store.Platform, [name |-> "AutoOS"]).pk
       /\ One(r.store.Location, [name |-> d.location_name])
       /\ dev.location = The(r.store.Location, [name |-> d.location_name]).pk
       /\ One(r.store.Status, [name |-> "Active"])
       /\ dev.status = The(r.store.Status, [name |-> "Active"]).pk
       /\ One(r.store.Interface, [device |-> dev.pk, name |-> "eth0"])
       /\ One(r.store.Interface, [device |-> dev.pk])
       /\ One(r.store.IPAddress, [address |-> ip_str(i)])
       /\ The(r.store.IPAddress, [address |-> ip_str(i)]).assigned_object
            = The(r.store.Interface, [device |-> dev.pk, name |-> "eth0"]).pk
       /\ One(r.store.Zone, [name |-> d.zone_name])
       /\ One(r.store.ARecord, [name |-> device_name(d, i),
                                zone |-> The(r.store.Zone, [name |-> d.zone_name]).pk])
       /\ The(r.store.ARecord, [name |-> device_name(d, i),
                                zone |-> The(r.store.Zone, [name |-> d.zone_name]).pk]).address
            = The(r.store.IPAddress, [address |-> ip_str(i)]).pk

RunComplete(r, d) ==
  Succeeded(r) => \A i \in 0 .. d.total_devices - 1 : DeviceComplete(r, d, i)

InvC6 == RunComplete(job, data) /\ RunComplete(twin, TwinData)

\* A successful run of MaxDevices devices that found its devices at another
\* location.
WitC6 ==
  /\ Succeeded(job)
  /\ data.total_devices = MaxDevices
  /\ \E x \in startStore.Device :
       /\ x.name = device_name(data, 0)
       /\ x.location # job.location

\* C7: the addresses of the indices 0 .. n-1, n <= 5000, are pairwise distinct
\* and their computed octets lie in 0 .. 255.
InvC7 ==
  /\ Cardinality(ipSeen) = ipIdx
  /\ ipIdx > 0 =>
       /\ ip_str(ipIdx - 1) \in ipSeen
       /\ ip_str(ipIdx - 1)[3] \in 0 .. 255
       /\ ip_str(ipIdx - 1)[4] \in 0 .. 255
       /\ ip_str(ipIdx - 1)[3] * 256 + ip_str(ipIdx - 1)[4] = ipIdx - 1

\* Two indices 256 apart: the same last octet, told apart by the third.
WitC7 ==
  /\ ip_str(ipIdx - 1)[4] = 0
  /\ ip_str(ipIdx - 1)[3] = 1
  /\ <<10, 0, 0, 0, 24>> \in ipSeen
  /\ <<10, 0, 1, 0, 24>> \in ipSeen

\* C8: a run with total_devices <= 0 has returned with exactly one failure
\* logged, the positive-integer message, no success line, no persistence call
\* and the store as it was.
Rejected(r, d) ==
  (d.total_devices <= 0 /\ r.pc # "idle") =>
    /\ r.pc = "returned"
    /\ r.calls = <<>>
    /\ r.store = startStore
    /\ CountLevel(r.log, "failure") = 1
    /\ r.log[Len(r.log)] = <<"failure", "Total devices must be a positive integer.">>
    /\ CountLevel(r.log, "success") = 0

InvC8 == Rejected(job, data) /\ Rejected(twin, TwinData)

WitC8 ==
  /\ data.total_devices = 0
  /\ job.pc = "returned"
  /\ startStore # EmptyStore

\* C9: the k-th persistence call of a run is fixed by k and the inputs: the six
\* common objects in the order Status, Manufacturer, DeviceType, Platform,
\* Location, Zone, then for i = 0, 1, ... the Device, Interface, IPAddress and
\* ARecord of index i; and at every step every Device refers to existing common
\* objects, every Interface to an existing Device, every IPAddress to an
\* existing Interface and every ARecord to an existing IPAddress and Zone.
CommonModels == <<"Status", "Manufacturer", "DeviceType", "Platform", "Location", "Zone">>

LoopModels == <<"Device", "Interface", "IPAddress", "ARecord">>

ExpectedCall(c, k, d) ==
  IF k <= Len(CommonModels)
    THEN c.model = CommonModels[k]
  ELSE LET idx == (k - Len(CommonModels) - 1) \div Len(LoopModels)
           pos == ((k - Len(CommonModels) - 1) % Len(LoopModels)) + 1
       IN  /\ idx < d.total_devices
           /\ c.model = LoopModels[pos]
           /\ CASE pos = 2 -> c.lookup.name = "eth0"
                [] pos = 3 -> c.lookup.address = ip_str(idx)
                [] OTHER -> c.lookup.name = device_name(d, idx)

References(store) ==
  LET status == Pks(store.Status) IN
  /\ {x.manufacturer : x \in store.DeviceType} \subseteq Pks(store.Manufacturer)
  /\ {x.device_type : x \in store.Device} \subseteq Pks(store.DeviceType)
  /\ {x.platform : x \in store.Device} \subseteq Pks(store.Platform)
  /\ {x.location : x \in store.Device} \subseteq Pks(store.Location)
  /\ {x.status : x \in store.Device} \subseteq status
  /\ {x.device : x \in store.Interface} \subseteq Pks(store.Device)
  /\ {x.status : x \in store.Interface} \subseteq status
  /\ {x.assigned_object : x \in store.IPAddress} \subseteq Pks(store.Interface)
  /\ {x.status : x \in store.IPAddress} \subseteq status
  /\ {x.address : x \in store.ARecord} \subseteq Pks(store.IPAddress)
  /\ {x.zone : x \in store.ARecord} \subseteq Pks(store.Zone)

FixedOrder(r, d) ==
  /\ \A k \in 1 .. Len(r.calls) : ExpectedCall(r.calls[k], k, d)
  /\ References(r.store)

InvC9 == FixedOrder(job, data) /\ FixedOrder(twin, TwinData)

\* Between the IPAddress and the ARecord call of the second iteration.
WitC9 ==
  /\ job.pc = "arecord"
  /\ job.i = 1
  /\ Len(job.calls) = 6 + 4 + 3
  /\ job.calls[Len(job.calls)].outcome = "created"

\* C10: after a successful run with base A and then a successful run with base
\* B # A and the same total_devices, for every index i the one IPAddress of
\* index i is assigned to eth0 of 'B-i', no IPAddress is assigned to eth0 of
\* 'A-i', and the ARecord 'A-i' still points at that IPAddress.
AddressesMoved(r, d) ==
  (/\ prev.ok /\ Succeeded(r)
   /\ prev.data.base_device_name # d.base_device_name
   /\ prev.data.total_devices = d.total_devices) =>
    \A i \in 0 .. d.total_devices - 1 :
      LET ip == The(r.store.IPAddress, [address |-> ip_str(i)])
          devA == The(r.store.Device, [name |-> device_name(prev.data, i)])
          devB == The(r.store.Device, [name |-> device_name(d, i)])
          ifA == The(r.store.Interface, [device |-> devA.pk, name |-> "eth0"])
          ifB == The(r.store.Interface, [device |-> devB.pk, name |-> "eth0"])
          zoneA == The(r.store.Zone, [name |-> prev.data.zone_name])
      IN  /\ One(r.store.IPAddress, [address |-> ip_str(i)])
          /\ One(r.store.Device, [name |-> device_name(prev.data, i)])
          /\ One(r.store.Interface, [device |-> devA.pk, name |-> "eth0"])
          /\ One(r.store.Interface, [device |-> devB.pk, name |-> "eth0"])
          /\ ifA # ifB
          /\ ip.assigned_object = ifB.pk
          /\ Matching(r.store.IPAddress, [assigned_object |-> ifA.pk]) = {}
          /\ One(r.store.ARecord, [name |-> device_name(prev.data, i), zone |-> zoneA.pk])
          /\ The(r.store.ARecord, [name |-> device_name(prev.data, i),
                                   zone |-> zoneA.pk]).address = ip.pk

InvC10 == AddressesMoved(job, data) /\ AddressesMoved(twin, TwinData)

\* Every ARecord's address is assigned to eth0 of the Device of the ARecord's
\* name.
ARecordsFollowDevices(store) ==
  \A a \in store.ARecord :
    \E dev \in store.Device, itf \in store.Interface, ip \in store.IPAddress :
      /\ dev.name = a.name
      /\ itf.device = dev.pk /\ itf.name = "eth0"
      /\ ip.pk = a.address /\ ip.assigned_object = itf.pk

\* The second run succeeded on a store where that property held, and it no
\* longer holds.
WitC10 ==
  /\ prev.ok /\ Succeeded(job)
  /\ prev.data.base_device_name # data.base_device_name
  /\ prev.data.total_devices = data.total_devices
  /\ data.total_devices = MaxDevices
  /\ ARecordsFollowDevices(startStore)
  /\ ~ARecordsFollowDevices(job.store)

====
